---- MODULE Spec2Model ----
(***************************************************************************)
(* Model of package tsnet (src/tsnet/tsnet.go): the embedded Server, its   *)
(* one-time startup (sync.Once around doInit/start), the listener registry *)
(* (Server.listeners under Server.mu), the in-process listener (an         *)
(* unbuffered channel of connections), the dispatcher forwardTCP and the   *)
(* global Close.                                                           *)
(*                                                                         *)
(* Goroutines calling the API are the members of Procs; every invocation   *)
(* of forwardTCP by the network stack is a member of Conns (the connection *)
(* it carries).                                                            *)
(***************************************************************************)
EXTENDS Integers, Sequences, FiniteSets, TLC

\* ------------------------------------------------------------------ bounds
NumProcs == 2       \* goroutines of the host application calling the API
NumConns == 1       \* inbound connections handed to forwardTCP
MaxCalls == 4       \* API calls made over the whole run
MaxLogs == 2        \* times the login URL is logged

Procs == 1..NumProcs
Conns == 1..NumConns

\* ------------------------------------------------------------ input domains
\* The (network, address) arguments of Listen, the address as the sequence
\* of its characters: the wildcard tcp address of port 80, the same for udp,
\* a tcp address with a host, and an address without a colon.
ListenArgs == { <<"tcp", <<":", "8", "0">> >>,
                <<"udp", <<":", "8", "0">> >>,
                <<"tcp", <<"h", ":", "8", "0">> >>,
                <<"tcp", <<"8", "0">> >> }
\* destination ports of inbound connections (uint16).
Ports == {80}

\* ------------------------------------------------------------------ errors
\* An error is the sequence of its message parts, outermost context first;
\* the nil error is the empty sequence.
NoErr == << >>
\* fmt.Errorf("tsnet: %w", err)
Wrap(err) == <<"tsnet">> \o err

ErrExecutable == <<"os.Executable">>
ErrConfiguration == <<"in-memory store is only supported for Ephemeral nodes">>
\* the error of a failing filesystem call (os.UserConfigDir, os.Lstat,
\* os.Rename, os.MkdirAll, os.Stat)
ErrDirectory == <<"state directory">>
ErrOldPathNotDir == <<"expected old tslib path to be a directory">>
ErrNotDirectory == <<"is not a directory">>
ErrLinkMon == <<"monitor.New">>
ErrEngine == <<"wgengine.NewUserspaceEngine">>
ErrNetstackCreate == <<"netstack.Create">>
ErrNetstackStart == <<"failed to start netstack">>
ErrStore == <<"store.New">>
ErrBackend == <<"NewLocalBackend">>
ErrBackendStart == <<"starting backend">>
ErrAddressParse == Wrap(<<"net.SplitHostPort">>)
ErrDuplicateListener == <<"tsnet", "listener already open">>
ErrClosedListener == Wrap(<<"net.ErrClosed">>)
ErrDial == <<"UserDial">>

\* The runtime panics of the Go runtime that these operations can raise; an
\* unrecovered panic ends the process.
PanicSendClosed == "send on closed channel"
PanicCloseClosed == "close of closed channel"
PanicNilDeref == "nil pointer dereference"

\* ------------------------------------------------------------ pure helpers
Digit == <<"0", "1", "2", "3", "4", "5", "6", "7", "8", "9">>

RECURSIVE Sprint(_)
\* fmt.Sprint(port) of a uint16: its decimal digits.
Sprint(n) ==
  IF n < 10 THEN << Digit[n + 1] >>
  ELSE Sprint(n \div 10) \o << Digit[(n % 10) + 1] >>

\* Index of the last ":" of addr, 0 when there is none.
LastColon(addr) ==
  LET is == { i \in 1..Len(addr) : addr[i] = ":" }
  IN IF is = {} THEN 0 ELSE CHOOSE i \in is : \A j \in is : j <= i

\* net.SplitHostPort on an address without brackets: the text after the
\* last colon is the port, the text before it the host; no colon at all
\* ("missing port") and a colon in the host ("too many colons") are errors.
SplitHostPort(addr) ==
  LET i == LastColon(addr)
      host == SubSeq(addr, 1, i - 1)
      port == SubSeq(addr, i + 1, Len(addr))
  IN IF i = 0 THEN [ok |-> FALSE, host |-> << >>, port |-> << >>]
     ELSE IF \E j \in 1..Len(host) : host[j] = ":"
          THEN [ok |-> FALSE, host |-> << >>, port |-> << >>]
          ELSE [ok |-> TRUE, host |-> host, port |-> port]

\* listenKey{network, host, port}
ListenKey(network, host, port) ==
  [network |-> network, host |-> host, port |-> port]

\* Faulty variant: the lookup key built with the wrong network.
ForwardKeyUDP(port) == ListenKey("udp", << >>, Sprint(port))

\* The key forwardTCP looks up for a destination port.
ForwardKey(port) == ListenKey("tcp", << >>, Sprint(port))

VARIABLES
  Store,       \* Server.Store: "nil", "mem" (*mem.Store) or "file"
  Ephemeral,   \* Server.Ephemeral
  once,        \* Server.initOnce: "new", "running" or "done"
  initPC,      \* the statement of start() the initializing goroutine is at
  initRuns,    \* number of times doInit has been entered
  initErr,     \* Server.initErr
  handles,     \* the Server fields that are set (non-nil)
  built,       \* network components constructed so far by start()
  shutdown,    \* shutdownCtx has been cancelled
  mu,          \* Server.mu: 0 when free, else the goroutine holding it
  listeners,   \* Server.listeners: function from registered keys to listener
  listenersNil,\* Server.listeners is the nil map
  lns,         \* the listener objects registered so far: key and channel state
  pc,          \* per goroutine: where it is in its current API call
  call,        \* per goroutine: the API call it is making and its arguments
  ret,         \* the calls that returned in the last step, with what they returned
  startResults,\* every value a call of Start has returned so far
  closeCalled, \* Server.Close has been called
  calls,       \* number of API calls made so far
  dpc,         \* per connection: where its forwardTCP invocation is
  dport,       \* per connection: its destination port
  dln,         \* per connection: the listener forwardTCP found (0: none)
  outcome,     \* per connection: "none", "delivered", "closed" or "panic"
  acceptedBy,  \* per connection: the listener whose Accept received it (0: none)
  crashed,     \* "" while the process runs, else the runtime panic it died of
  Dir,         \* Server.Dir: "" or the path "custom"
  fs,          \* the filesystem: what is at each path ("absent", "dir", "file")
  rootPath,    \* Server.rootPath: "" or the path of the state directory
  renames,     \* number of os.Rename calls that have succeeded
  lbState,     \* what s.lb.State() returns: "NeedsLogin" or "Running"
  loopPC,      \* printAuthURLLoop: "none" (not started), "ctx", "state",
               \* "status", "sleep" or "done" (returned)
  loopSt,      \* printAuthURLLoop: its local st, "" before the first read
  urlLogs      \* number of times the login URL has been logged

vars == << Store, Ephemeral, once, initPC, initRuns, initErr, handles, built,
           shutdown, mu, listeners, listenersNil, lns, pc, call, ret,
           startResults, closeCalled, calls, dpc, dport, dln, outcome,
           acceptedBy, crashed, Dir, fs, rootPath, renames,
           lbState, loopPC, loopSt, urlLogs >>

dirVars == << Dir, fs, rootPath, renames >>
loopVars == << lbState, loopPC, loopSt, urlLogs >>
onceVars == << Store, Ephemeral, once, initPC, initRuns, initErr, handles, built,
               dirVars, loopVars >>
regVars == << mu, listeners, listenersNil, lns >>
connVars == << dpc, dport, dln, outcome, acceptedBy >>

\* ------------------------------------------------------------ call records
NoCall == [op |-> "none", network |-> "", addr |-> << >>, ln |-> 0]
\* Call c of goroutine p returning: its error and its value (a listener or a
\* connection).
Returned(p, c, err, val) ==
  [proc |-> p, op |-> c.op, network |-> c.network, addr |-> c.addr,
   ln |-> c.ln, err |-> err, val |-> val]

\* The empty map.
EmptyMap == [k \in {} |-> 0]

\* ------------------------------------------------------------------- Init
\* A Server value before its first call, with the exported fields as the
\* caller set them.
InitFields(stores, ephemerals) ==
  /\ Store \in stores
  /\ Ephemeral \in ephemerals
  /\ once = "new"
  /\ initPC = "none"
  /\ initRuns = 0
  /\ initErr = NoErr
  /\ handles = {}
  /\ built = {}
  /\ shutdown = FALSE
  /\ mu = 0
  /\ listeners = EmptyMap
  /\ listenersNil = TRUE
  /\ lns = << >>
  /\ pc = [p \in Procs |-> "idle"]
  /\ call = [p \in Procs |-> NoCall]
  /\ ret = {}
  /\ startResults = {}
  /\ closeCalled = FALSE
  /\ calls = 0
  /\ crashed = ""

\* No connection of cs has been handed to forwardTCP yet.
InitConns(cs) ==
  /\ dpc = [c \in cs |-> "idle"]
  /\ dport = [c \in cs |-> 0]
  /\ dln = [c \in cs |-> 0]
  /\ outcome = [c \in cs |-> "none"]
  /\ acceptedBy = [c \in cs |-> 0]

\* The paths start() and getTSNetDir look at: the legacy-named and the
\* new-named directory under the user's configuration directory, and the
\* path the caller put into Server.Dir.
Paths == {"tslib", "tsnet", "custom"}
\* What is at a path: nothing, a directory, or something that is not a
\* directory.
Kinds == {"absent", "dir", "file"}

\* The filesystem with nothing at any of the paths.
EmptyFs == [x \in Paths |-> "absent"]

\* Server.Dir as the caller set it, and the filesystem before the first call.
InitDirs(dirs, filesystems) ==
  /\ Dir \in dirs
  /\ fs \in filesystems
  /\ rootPath = ""
  /\ renames = 0

\* The states the control backend reports.
LbStates == {"NeedsLogin", "Running"}

\* printAuthURLLoop has not been started; the backend will report one of
\* states once it is.
InitLoop(states) ==
  /\ lbState \in states
  /\ loopPC = "none"
  /\ loopSt = ""
  /\ urlLogs = 0

\* The zero Server: no store configured, not ephemeral, no directory
\* configured, on a filesystem that has no state directory yet.
Init ==
  /\ InitFields({"nil"}, {FALSE})
  /\ InitDirs({""}, {EmptyFs})
  /\ InitConns(Conns)
  /\ InitLoop({"NeedsLogin"})

\* A Server with Store and Ephemeral set by the caller before the first call.
InitConfigured ==
  /\ InitFields({"nil", "mem", "file"}, BOOLEAN)
  /\ InitDirs({""}, {EmptyFs})
  /\ InitConns(Conns)
  /\ InitLoop({"NeedsLogin"})

\* A Server without Server.Dir on every filesystem under the configuration
\* directory, or with Server.Dir set to a path with anything at it.
InitDirectory ==
  /\ InitFields({"nil"}, {FALSE})
  /\ InitConns(Conns)
  /\ InitLoop({"NeedsLogin"})
  /\ \/ InitDirs({""}, { f \in [Paths -> Kinds] : f["custom"] = "absent" })
     \/ InitDirs({"custom"}, { f \in [Paths -> Kinds] :
                                f["tslib"] = "absent" /\ f["tsnet"] = "absent" })

\* ---------------------------------------------------- Start, Listen, Dial
\* Faulty variant: a once that is released again when doInit failed, so that the
\* next caller retries.
OnceRetryOnError(err) == IF err # NoErr THEN "new" ELSE "done"

\* The state of the sync.Once after doInit has returned with err.
OnceAfterInit(err) == "done"

\* Faulty variant: a once that lets callers through as soon as it has been taken.
OnceTaken(o) == o # "new"

\* sync.Once.Do lets a caller through when the once has completed.
OnceCompleted(o) == o = "done"

\* Faulty variant: a Dial that goes on to the registry as Listen does.
AfterStartRegister(c) == "register"

\* Where call c goes on once its Start has returned nil: Listen to the
\* registry, Dial to the dialer.
AfterStart(c) == IF c.op = "Listen" THEN "register" ELSE "userdial"

\* Call c of goroutine p gets through the once: Start returns s.initErr;
\* Listen and Dial return it when it is an error and go on otherwise.
PassOnce(p, c) ==
  /\ startResults' = startResults \cup {initErr}
  /\ IF c.op = "Start" \/ initErr # NoErr
     THEN /\ ret' = {Returned(p, c, initErr, 0)}
          /\ pc' = [pc EXCEPT ![p] = "idle"]
          /\ call' = [call EXCEPT ![p] = NoCall]
     ELSE /\ pc' = [pc EXCEPT ![p] = AfterStart(c)]
          /\ call' = [call EXCEPT ![p] = c]
          /\ ret' = {}

\* Call c of goroutine p reaches s.initOnce.Do: with the once completed it
\* goes through at once, otherwise it is held at the once.
EnterOnce(p, c) ==
  IF OnceCompleted(once)
  THEN PassOnce(p, c)
  ELSE /\ pc' = [pc EXCEPT ![p] = "once"]
       /\ call' = [call EXCEPT ![p] = c]
       /\ ret' = {}
       /\ startResults' = startResults

\* Server.Start called directly.
CallStart(p) ==
  /\ crashed = ""
  /\ calls < MaxCalls
  /\ calls' = calls + 1
  /\ pc[p] = "idle"
  /\ EnterOnce(p, [NoCall EXCEPT !.op = "Start"])
  /\ UNCHANGED << onceVars, shutdown, regVars, closeCalled, connVars, crashed >>

\* Server.Dial called: it calls Start first.
CallDial(p) ==
  /\ crashed = ""
  /\ calls < MaxCalls
  /\ calls' = calls + 1
  /\ pc[p] = "idle"
  /\ EnterOnce(p, [NoCall EXCEPT !.op = "Dial"])
  /\ UNCHANGED << onceVars, shutdown, regVars, closeCalled, connVars, crashed >>

\* Server.Listen called: the address is split first, and a malformed one
\* returns before Start is called.
CallListen(p, network, addr) ==
  /\ crashed = ""
  /\ calls < MaxCalls
  /\ calls' = calls + 1
  /\ pc[p] = "idle"
  /\ LET c == [NoCall EXCEPT !.op = "Listen", !.network = network, !.addr = addr]
     IN IF SplitHostPort(addr).ok
        THEN EnterOnce(p, c)
        ELSE /\ ret' = {Returned(p, c, ErrAddressParse, 0)}
             /\ UNCHANGED << pc, call, startResults >>
  /\ UNCHANGED << onceVars, shutdown, regVars, closeCalled, connVars, crashed >>

\* sync.Once.Do with the once not yet taken: this goroutine runs doInit,
\* which first creates the shutdown context and its cancel function.
OnceBegin(p) ==
  /\ crashed = ""
  /\ calls' = calls
  /\ pc[p] = "once"
  /\ once = "new"
  /\ once' = "running"
  /\ initRuns' = initRuns + 1
  /\ initPC' = "exe"
  /\ handles' = handles \cup {"shutdownCancel"}
  /\ pc' = [pc EXCEPT ![p] = "init"]
  /\ ret' = {}
  /\ UNCHANGED << Store, Ephemeral, initErr, built, shutdown, regVars, call,
                  startResults, closeCalled, connVars, crashed, dirVars,
                  loopVars >>

\* The in-memory store policy of start(): the condition under which it
\* returns the "in-memory store is only supported for Ephemeral nodes" error.
PolicyRejects(store, ephemeral) ==
  store # "nil" /\ ~ephemeral /\ store # "mem"

\* One statement group of start(): the error it returns (NoErr to go on),
\* the next group, and the fields and components it sets. ok is whether the
\* collaborator it calls succeeds.
StartEffect(step, ok, store, ephemeral, h, b) ==
  LET go(err, next, h2, b2, s2) ==
        [err |-> err, next |-> next, handles |-> h2, built |-> b2, store |-> s2]
  IN CASE step = "exe" ->
            go(IF ok THEN NoErr ELSE ErrExecutable, "policy", h, b, store)
       [] step = "policy" ->
            go(IF PolicyRejects(store, ephemeral) THEN ErrConfiguration ELSE NoErr,
               "dir", h, b, store)
       [] step = "linkmon" ->
            IF ok THEN go(NoErr, "engine", h \cup {"linkMon"}, b \cup {"linkMon"}, store)
            ELSE go(ErrLinkMon, "engine", h, b, store)
       [] step = "engine" ->
            IF ok THEN go(NoErr, "nscreate", h \cup {"dialer"}, b \cup {"engine"}, store)
            ELSE go(ErrEngine, "nscreate", h \cup {"dialer"}, b, store)
       [] step = "nscreate" ->
            IF ok THEN go(NoErr, "nsstart", h, b \cup {"netstack"}, store)
            ELSE go(ErrNetstackCreate, "nsstart", h, b, store)
       [] step = "nsstart" ->
            IF ok THEN go(NoErr, "store", h, b \cup {"forwarding"}, store)
            ELSE go(ErrNetstackStart, "store", h, b, store)
       [] step = "store" ->
            IF store # "nil" THEN go(NoErr, "backend", h, b, store)
            ELSE IF ok THEN go(NoErr, "backend", h, b, "file")
            ELSE go(ErrStore, "backend", h, b, store)
       [] step = "backend" ->
            IF ok THEN go(NoErr, "lbstart", h \cup {"lb"}, b \cup {"backend"}, store)
            ELSE go(ErrBackend, "lbstart", h, b, store)
       [] step = "lbstart" ->
            go(IF ok THEN NoErr ELSE ErrBackendStart, "serve", h, b, store)
       [] step = "serve" ->
            go(NoErr, "returned", h \cup {"localAPIListener"}, b, store)

\* The goroutine inside doInit executes the next statement group of start();
\* an error is wrapped into initErr and ends the sequence, and so does the
\* last group. doInit then returns and the once completes.
StartStep(p, ok) ==
  /\ crashed = ""
  /\ calls' = calls
  /\ pc[p] = "init"
  /\ initPC # "dir"
  /\ LET eff == StartEffect(initPC, ok, Store, Ephemeral, handles, built)
         finished == eff.err # NoErr \/ eff.next = "returned"
     IN /\ handles' = eff.handles
        /\ built' = eff.built
        /\ Store' = eff.store
        /\ initErr' = IF eff.err # NoErr THEN Wrap(eff.err) ELSE initErr
        /\ initPC' = IF finished THEN "returned" ELSE eff.next
        /\ once' = IF finished THEN OnceAfterInit(eff.err) ELSE once
        /\ pc' = IF finished THEN [pc EXCEPT ![p] = "once"] ELSE pc
        /\ loopPC' = IF initPC = "serve" THEN "ctx" ELSE loopPC
  /\ ret' = {}
  /\ UNCHANGED << Ephemeral, initRuns, shutdown, regVars, call,
                  startResults, closeCalled, connVars, crashed, dirVars,
                  lbState, loopSt, urlLogs >>

\* The filesystem calls of the directory resolution that can fail for a
\* reason outside the program (permissions, a full disk): none of them, or
\* os.UserConfigDir, the os.Lstat of the old or of the new path, os.Rename,
\* os.MkdirAll, os.Stat.
DirFailures == {"none", "confdir", "lstatold", "lstatnew", "rename", "mkdir", "stat"}

\* The result of a step of the directory resolution: its error, the path it
\* resolved, the filesystem it leaves and the number of renames it made.
DirResult(err, path, f, n) == [err |-> err, path |-> path, fs |-> f, renames |-> n]

\* Faulty variant: the migration attempted although the new path is a directory
\* already, the old directory replacing the new one.
MigrateOverNew(f, fail) ==
  IF fail = "lstatold" THEN DirResult(ErrDirectory, "", f, 0)
  ELSE IF f["tslib"] = "absent" THEN DirResult(NoErr, "tsnet", f, 0)
  ELSE IF f["tslib"] # "dir" THEN DirResult(ErrOldPathNotDir, "", f, 0)
  ELSE IF fail = "lstatnew" THEN DirResult(ErrDirectory, "", f, 0)
  ELSE IF fail = "rename" \/ f["tsnet"] = "file" THEN DirResult(ErrDirectory, "", f, 0)
  ELSE DirResult(NoErr, "tsnet",
                 [f EXCEPT !["tslib"] = "absent", !["tsnet"] = "dir"], 1)

\* getTSNetDir on filesystem f: with nothing at the old path the new path;
\* an old path that is not a directory is an error; with directories at
\* both the new path, the old one ignored; otherwise the old directory is
\* renamed to the new path (os.Rename fails when the new path is there and
\* is not a directory).
GetTSNetDir(f, fail) ==
  IF fail = "lstatold" THEN DirResult(ErrDirectory, "", f, 0)
  ELSE IF f["tslib"] = "absent" THEN DirResult(NoErr, "tsnet", f, 0)
  ELSE IF f["tslib"] # "dir" THEN DirResult(ErrOldPathNotDir, "", f, 0)
  ELSE IF fail # "lstatnew" /\ f["tsnet"] = "dir" THEN DirResult(NoErr, "tsnet", f, 0)
  ELSE IF fail = "lstatnew" THEN DirResult(ErrDirectory, "", f, 0)
  ELSE IF fail = "rename" \/ f["tsnet"] = "file" THEN DirResult(ErrDirectory, "", f, 0)
  ELSE DirResult(NoErr, "tsnet",
                 [f EXCEPT !["tslib"] = "absent", !["tsnet"] = "dir"], 1)

\* os.MkdirAll(path): nothing to do when path is a directory, an error when
\* it is something else, else the directory is created.
MkdirAll(f, path, fail) ==
  IF fail = "mkdir" \/ f[path] = "file" THEN DirResult(ErrDirectory, path, f, 0)
  ELSE DirResult(NoErr, path, [f EXCEPT ![path] = "dir"], 0)

\* os.Stat(path) and the IsDir test that follows it.
StatIsDir(f, path, fail) ==
  IF fail = "stat" \/ f[path] = "absent" THEN DirResult(ErrDirectory, path, f, 0)
  ELSE IF f[path] # "dir" THEN DirResult(ErrNotDirectory, path, f, 0)
  ELSE DirResult(NoErr, path, f, 0)

\* The directory resolution of start(): s.rootPath is s.Dir; when that is
\* empty it is what getTSNetDir returns under os.UserConfigDir, created if
\* need be; in both cases it must then be a directory. s.rootPath keeps the
\* value it had when an error ends start().
ResolveDir(dir, f, fail) ==
  IF dir # "" THEN StatIsDir(f, dir, fail)
  ELSE IF fail = "confdir" THEN DirResult(ErrDirectory, "", f, 0)
  ELSE LET g == GetTSNetDir(f, fail)
       IN IF g.err # NoErr THEN g
          ELSE LET m == MkdirAll(g.fs, g.path, fail)
               IN IF m.err # NoErr THEN DirResult(m.err, g.path, m.fs, g.renames)
                  ELSE LET t == StatIsDir(m.fs, g.path, fail)
                       IN DirResult(t.err, g.path, t.fs, g.renames)

\* The goroutine inside doInit executes the directory resolution of start().
StartDir(p, fail) ==
  /\ crashed = ""
  /\ calls' = calls
  /\ pc[p] = "init"
  /\ initPC = "dir"
  /\ LET r == ResolveDir(Dir, fs, fail)
     IN /\ fs' = r.fs
        /\ rootPath' = r.path
        /\ renames' = renames + r.renames
        /\ initErr' = IF r.err # NoErr THEN Wrap(r.err) ELSE initErr
        /\ initPC' = IF r.err # NoErr THEN "returned" ELSE "linkmon"
        /\ once' = IF r.err # NoErr THEN OnceAfterInit(r.err) ELSE once
        /\ pc' = IF r.err # NoErr THEN [pc EXCEPT ![p] = "once"] ELSE pc
  /\ ret' = {}
  /\ UNCHANGED << Store, Ephemeral, Dir, initRuns, handles, built, shutdown,
                  regVars, call, startResults, closeCalled, connVars, crashed,
                  loopVars >>

\* A goroutine held at the once goes through it when it has completed.
OnceReturn(p) ==
  /\ crashed = ""
  /\ calls' = calls
  /\ pc[p] = "once"
  /\ OnceCompleted(once)
  /\ PassOnce(p, call[p])
  /\ UNCHANGED << onceVars, shutdown, regVars, closeCalled, connVars, crashed >>

\* Dial after a successful Start: dialer.UserDial, which connects or fails.
UserDial(p, ok) ==
  /\ crashed = ""
  /\ calls' = calls
  /\ pc[p] = "userdial"
  /\ "dialer" \in handles
  /\ ret' = {Returned(p, call[p], IF ok THEN NoErr ELSE ErrDial, 0)}
  /\ pc' = [pc EXCEPT ![p] = "idle"]
  /\ call' = [call EXCEPT ![p] = NoCall]
  /\ UNCHANGED << onceVars, shutdown, regVars, startResults, closeCalled,
                  connVars, crashed >>

\* ------------------------------------------------------------- the registry
\* Faulty variant: Listen without its duplicate check.
KeyNeverRegistered(m, key) == FALSE

\* _, ok := s.listeners[key]
KeyRegistered(m, key) == key \in DOMAIN m

\* Faulty variant: a lookup that compares host and port and forgets the network.
LookupAnyNetwork(m, key) ==
  LET ks == { k \in DOMAIN m : k.host = key.host /\ k.port = key.port }
  IN IF ks = {} THEN 0 ELSE m[CHOOSE k \in ks : TRUE]

\* ln, ok := s.listeners[key], with 0 for "not ok".
Lookup(m, key) == IF key \in DOMAIN m THEN m[key] ELSE 0

\* Faulty variant: a Listen that returns its listener without storing it.
MapInsertNothing(m, key, ln) == m

\* s.listeners[key] = ln
MapInsert(m, key, ln) ==
  [k \in DOMAIN m \cup {key} |-> IF k = key THEN ln ELSE m[k]]

\* Faulty variant: a Close that clears the whole map.
MapDeleteAll(m, key) == [k \in {} |-> 0]

\* Faulty variant: a Close that forgets to delete the key.
MapDeleteNothing(m, key) == m

\* delete(s.listeners, key)
MapDelete(m, key) == [k \in DOMAIN m \ {key} |-> m[k]]

\* Faulty variant: the registrant test without the identity comparison v == ln.
IsRegistrantKeyOnly(m, key, ln) == key \in DOMAIN m

\* v, ok := ln.s.listeners[ln.key]; ok && v == ln
IsRegistrant(m, key, ln) == key \in DOMAIN m /\ m[key] = ln

\* The key Listen builds from its arguments.
CallKey(c) ==
  LET hp == SplitHostPort(c.addr) IN ListenKey(c.network, hp.host, hp.port)

\* The goroutines blocked in Accept on listener l.
Accepting(l) == { p \in Procs : pc[p] = "accept" /\ call[p].ln = l }

\* The forwardTCP invocations blocked in their select, offering to listener l.
Offering(l) == { c \in DOMAIN dpc : dpc[c] = "offer" /\ dln[c] = l }

\* Listen after a successful Start: under s.mu, make the map if it is nil,
\* fail if the key is registered, else register a new listener.
ListenRegister(p) ==
  /\ crashed = ""
  /\ calls' = calls
  /\ pc[p] = "register"
  /\ mu = 0
  /\ LET key == CallKey(call[p])
         ln == Len(lns) + 1
     IN IF KeyRegistered(listeners, key)
        THEN /\ ret' = {Returned(p, call[p], ErrDuplicateListener, 0)}
             /\ UNCHANGED << listeners, lns >>
        ELSE /\ lns' = Append(lns, [key |-> key, closed |-> FALSE])
             /\ listeners' = MapInsert(listeners, key, ln)
             /\ ret' = {Returned(p, call[p], NoErr, ln)}
  /\ listenersNil' = FALSE
  /\ pc' = [pc EXCEPT ![p] = "idle"]
  /\ call' = [call EXCEPT ![p] = NoCall]
  /\ UNCHANGED << onceVars, shutdown, mu, startResults, closeCalled,
                  connVars, crashed >>

\* listener.Close: under s.mu, when ln is the listener stored under its key,
\* delete the key and close the channel. Closing the channel makes every
\* Accept blocked on it return the closed error; a forwardTCP blocked sending
\* on it panics, and so does closing a channel that is closed already.
ListenerClose(p, l) ==
  /\ crashed = ""
  /\ calls < MaxCalls
  /\ calls' = calls + 1
  /\ pc[p] = "idle"
  /\ mu = 0
  /\ LET c == [NoCall EXCEPT !.op = "ListenerClose", !.ln = l]
     IN IF IsRegistrant(listeners, lns[l].key, l)
        THEN /\ listeners' = MapDelete(listeners, lns[l].key)
             /\ lns' = [lns EXCEPT ![l].closed = TRUE]
             /\ crashed' = IF lns[l].closed THEN PanicCloseClosed
                           ELSE IF Offering(l) # {} THEN PanicSendClosed
                           ELSE crashed
             /\ pc' = [q \in Procs |-> IF q \in Accepting(l) THEN "idle" ELSE pc[q]]
             /\ call' = [q \in Procs |-> IF q \in Accepting(l) THEN NoCall ELSE call[q]]
             /\ ret' = {Returned(p, c, NoErr, 0)} \cup
                       {Returned(q, call[q], ErrClosedListener, 0) : q \in Accepting(l)}
             /\ dpc' = [d \in DOMAIN dpc |->
                          IF d \in Offering(l) THEN "done" ELSE dpc[d]]
             /\ outcome' = [d \in DOMAIN dpc |->
                              IF d \in Offering(l) THEN "panic" ELSE outcome[d]]
        ELSE /\ ret' = {Returned(p, c, NoErr, 0)}
             /\ UNCHANGED << listeners, lns, crashed, pc, call, dpc, outcome >>
  /\ UNCHANGED << onceVars, shutdown, mu, listenersNil, startResults,
                  closeCalled, dport, dln, acceptedBy >>

\* listener.Accept: receive from the channel. A closed channel yields the
\* closed error at once; a forwardTCP blocked offering on the channel hands
\* over its connection; otherwise the caller blocks.
Accept(p, l) ==
  /\ crashed = ""
  /\ calls < MaxCalls
  /\ calls' = calls + 1
  /\ pc[p] = "idle"
  /\ LET c == [NoCall EXCEPT !.op = "Accept", !.ln = l]
     IN IF lns[l].closed
        THEN /\ ret' = {Returned(p, c, ErrClosedListener, 0)}
             /\ UNCHANGED << pc, call, dpc, outcome, acceptedBy >>
        ELSE IF Offering(l) # {}
        THEN \E d \in Offering(l) :
               /\ ret' = {Returned(p, c, NoErr, d)}
               /\ dpc' = [dpc EXCEPT ![d] = "done"]
               /\ outcome' = [outcome EXCEPT ![d] = "delivered"]
               /\ acceptedBy' = [acceptedBy EXCEPT ![d] = l]
               /\ UNCHANGED << pc, call >>
        ELSE /\ pc' = [pc EXCEPT ![p] = "accept"]
             /\ call' = [call EXCEPT ![p] = c]
             /\ ret' = {}
             /\ UNCHANGED << dpc, outcome, acceptedBy >>
  /\ UNCHANGED << onceVars, shutdown, regVars, startResults, closeCalled,
                  dport, dln, crashed >>

\* ----------------------------------------------------------- the dispatcher
\* Faulty variant: a forwardTCP that keeps s.mu while it offers the connection.
MuHeldInSelect(c) == 0 - c

\* s.mu.Unlock() after the lookup: forwardTCP of connection c leaves the
\* mutex free before it goes on.
MuAfterLookup(c) == 0

\* forwardTCP, called by the network stack once it has been started (the
\* connections are numbered in the order of their calls): look
\* the key of the port up under s.mu; with no listener the connection is
\* closed and the call returns.
DispatchLookup(c, port) ==
  /\ crashed = ""
  /\ calls' = calls
  /\ dpc[c] = "idle"
  /\ \A d \in DOMAIN dpc : d < c => dpc[d] # "idle"
  /\ "forwarding" \in built
  /\ mu = 0
  /\ mu' = MuAfterLookup(c)
  /\ LET ln == Lookup(listeners, ForwardKey(port))
     IN /\ dport' = [dport EXCEPT ![c] = port]
        /\ dln' = [dln EXCEPT ![c] = ln]
        /\ dpc' = [dpc EXCEPT ![c] = IF ln = 0 THEN "done" ELSE "found"]
        /\ outcome' = [outcome EXCEPT ![c] = IF ln = 0 THEN "closed" ELSE "none"]
  /\ ret' = {}
  /\ UNCHANGED << onceVars, shutdown, listeners, listenersNil, lns, pc, call,
                  startResults, closeCalled, acceptedBy, crashed >>

\* forwardTCP starts its one second timer and enters the select: a send on
\* a closed channel panics; with an Accept blocked on the channel the
\* connection is handed over; otherwise forwardTCP blocks in the select.
DispatchOffer(c) ==
  /\ crashed = ""
  /\ calls' = calls
  /\ dpc[c] = "found"
  /\ LET l == dln[c]
     IN IF lns[l].closed
        THEN /\ crashed' = PanicSendClosed
             /\ dpc' = [dpc EXCEPT ![c] = "done"]
             /\ outcome' = [outcome EXCEPT ![c] = "panic"]
             /\ ret' = {}
             /\ UNCHANGED << pc, call, acceptedBy >>
        ELSE IF Accepting(l) # {}
        THEN \E p \in Accepting(l) :
               /\ ret' = {Returned(p, call[p], NoErr, c)}
               /\ pc' = [pc EXCEPT ![p] = "idle"]
               /\ call' = [call EXCEPT ![p] = NoCall]
               /\ dpc' = [dpc EXCEPT ![c] = "done"]
               /\ outcome' = [outcome EXCEPT ![c] = "delivered"]
               /\ acceptedBy' = [acceptedBy EXCEPT ![c] = l]
               /\ crashed' = crashed
        ELSE /\ dpc' = [dpc EXCEPT ![c] = "offer"]
             /\ ret' = {}
             /\ UNCHANGED << pc, call, outcome, acceptedBy, crashed >>
  /\ UNCHANGED << onceVars, shutdown, regVars, startResults, closeCalled,
                  dport, dln >>

\* Faulty variant: a timer case that is also taken after the send has completed.
TimerAfterSend(c) == dpc[c] = "offer" \/ (dpc[c] = "done" /\ dln[c] # 0)

\* The select takes one of its cases: the timer case can be taken only
\* while forwardTCP is still blocked in the select.
TimerCase(c) == dpc[c] = "offer"

\* The timer of a forwardTCP blocked in its select fires: it closes the
\* connection and returns.
DispatchTimeout(c) ==
  /\ crashed = ""
  /\ calls' = calls
  /\ TimerCase(c)
  /\ dpc' = [dpc EXCEPT ![c] = "done"]
  /\ outcome' = [outcome EXCEPT ![c] = "closed"]
  /\ ret' = {}
  /\ UNCHANGED << onceVars, shutdown, regVars, pc, call, startResults,
                  closeCalled, dport, dln, acceptedBy, crashed >>

\* ------------------------------------------------------------- Server.Close
\* The fields Close calls a method on before it takes s.mu.
CloseHandles == {"shutdownCancel", "lb", "linkMon", "localAPIListener"}

\* Server.Close up to s.mu.Lock(): cancel the shutdown context, shut the
\* backend down, close the link monitor and the local API listener. A field
\* that was never set is a nil dereference, which panics. Its callers call
\* it once, after Start has returned.
CloseTeardown(p) ==
  /\ crashed = ""
  /\ calls < MaxCalls
  /\ calls' = calls + 1
  /\ pc[p] = "idle"
  /\ once = "done"
  /\ ~closeCalled
  /\ closeCalled' = TRUE
  /\ shutdown' = TRUE
  /\ IF CloseHandles \subseteq handles
     THEN /\ pc' = [pc EXCEPT ![p] = "closereg"]
          /\ call' = [call EXCEPT ![p] = [NoCall EXCEPT !.op = "Close"]]
          /\ crashed' = crashed
     ELSE /\ crashed' = PanicNilDeref
          /\ UNCHANGED << pc, call >>
  /\ ret' = {}
  /\ UNCHANGED << onceVars, regVars, startResults, connVars >>

\* Server.Close from s.mu.Lock() on: with s.mu held it calls ln.Close() on
\* the listeners of the map, and ln.Close() starts by locking s.mu, which is
\* not reentrant: with a listener in the map the goroutine stops there for
\* good, holding s.mu ("closeln"). With an empty map it sets the map to nil,
\* unlocks and returns.
CloseRegistry(p) ==
  /\ crashed = ""
  /\ calls' = calls
  /\ pc[p] = "closereg"
  /\ mu = 0
  /\ IF DOMAIN listeners # {}
     THEN /\ mu' = p
          /\ pc' = [pc EXCEPT ![p] = "closeln"]
          /\ ret' = {}
          /\ UNCHANGED << listenersNil, call >>
     ELSE /\ listenersNil' = TRUE
          /\ ret' = {Returned(p, call[p], NoErr, 0)}
          /\ pc' = [pc EXCEPT ![p] = "idle"]
          /\ call' = [call EXCEPT ![p] = NoCall]
          /\ mu' = mu
  /\ UNCHANGED << onceVars, shutdown, listeners, lns, startResults,
                  closeCalled, connVars, crashed >>

\* ------------------------------------------------------------ specification
Next ==
  \/ \E p \in Procs : CallStart(p)
  \/ \E p \in Procs : CallDial(p)
  \/ \E p \in Procs, a \in ListenArgs : CallListen(p, a[1], a[2])
  \/ \E p \in Procs : OnceBegin(p)
  \/ \E p \in Procs, ok \in BOOLEAN : StartStep(p, ok)
  \/ \E p \in Procs, fail \in DirFailures : StartDir(p, fail)
  \/ \E p \in Procs : OnceReturn(p)
  \/ \E p \in Procs, ok \in BOOLEAN : UserDial(p, ok)
  \/ \E p \in Procs : ListenRegister(p)
  \/ \E p \in Procs, l \in DOMAIN lns : ListenerClose(p, l)
  \/ \E p \in Procs, l \in DOMAIN lns : Accept(p, l)
  \/ \E c \in Conns, port \in Ports : DispatchLookup(c, port)
  \/ \E c \in Conns : DispatchOffer(c)
  \/ \E c \in Conns : DispatchTimeout(c)
  \/ \E p \in Procs : CloseTeardown(p)
  \/ \E p \in Procs : CloseRegistry(p)

Spec == Init /\ [][Next]_vars

\* The startup path alone, over every configuration of Store and Ephemeral.
NextStartup ==
  \/ \E p \in Procs : CallStart(p)
  \/ \E p \in Procs : CallDial(p)
  \/ \E p \in Procs, a \in ListenArgs : CallListen(p, a[1], a[2])
  \/ \E p \in Procs : OnceBegin(p)
  \/ \E p \in Procs, ok \in BOOLEAN : StartStep(p, ok)
  \/ \E p \in Procs, fail \in DirFailures : StartDir(p, fail)
  \/ \E p \in Procs : OnceReturn(p)
  \/ \E p \in Procs, ok \in BOOLEAN : UserDial(p, ok)
  \/ \E p \in Procs : ListenRegister(p)

SpecConfigured == InitConfigured /\ [][NextStartup]_vars

\* The startup path over every configuration of Server.Dir and every
\* filesystem.
SpecDirectory == InitDirectory /\ [][NextStartup]_vars

\* ------------------------------------------------------ printAuthURLLoop
\* What a step of the loop leaves alone: everything but its own position,
\* its local and the log.
LoopFrame ==
  /\ calls' = calls
  /\ ret' = {}
  /\ UNCHANGED << Store, Ephemeral, once, initPC, initRuns, initErr, handles,
                  built, dirVars, lbState, shutdown, regVars, pc, call,
                  startResults, closeCalled, connVars, crashed >>

\* Faulty variant: a loop that goes on after the shutdown context is cancelled.
CtxNeverDone(sd) == FALSE

\* s.shutdownCtx.Err() != nil
CtxDone(sd) == sd

\* Faulty variant: a loop that goes on whatever the backend state is.
StateNeverStops(st) == FALSE

\* st != ipn.NeedsLogin
StateStops(st) == st # "NeedsLogin"

\* The loop tests the shutdown context and returns when it is cancelled.
LoopCtx ==
  /\ crashed = ""
  /\ loopPC = "ctx"
  /\ loopPC' = IF CtxDone(shutdown) THEN "done" ELSE "state"
  /\ UNCHANGED << loopSt, urlLogs >>
  /\ LoopFrame

\* The loop reads the backend state and returns when it is not NeedsLogin.
LoopState ==
  /\ crashed = ""
  /\ loopPC = "state"
  /\ loopSt' = lbState
  /\ loopPC' = IF StateStops(lbState) THEN "done" ELSE "status"
  /\ urlLogs' = urlLogs
  /\ LoopFrame

\* The loop reads the status and logs the login URL when there is one
\* (hasURL), then enters its select.
LoopStatus(hasURL) ==
  /\ crashed = ""
  /\ loopPC = "status"
  /\ hasURL => urlLogs < MaxLogs
  /\ urlLogs' = IF hasURL THEN urlLogs + 1 ELSE urlLogs
  /\ loopPC' = "sleep"
  /\ loopSt' = loopSt
  /\ LoopFrame

\* The select of the loop takes its timer case after five seconds: the
\* next iteration begins.
LoopTimer ==
  /\ crashed = ""
  /\ loopPC = "sleep"
  /\ loopPC' = "ctx"
  /\ UNCHANGED << loopSt, urlLogs >>
  /\ LoopFrame

\* The select of the loop takes its shutdown case: the loop returns.
LoopCancelled ==
  /\ crashed = ""
  /\ loopPC = "sleep"
  /\ CtxDone(shutdown)
  /\ loopPC' = "done"
  /\ UNCHANGED << loopSt, urlLogs >>
  /\ LoopFrame

\* The control backend changes its state: the login completes, or the node
\* is logged out or its key expires.
BackendChange(st) ==
  /\ crashed = ""
  /\ "lb" \in handles
  /\ st # lbState
  /\ lbState' = st
  /\ calls' = calls
  /\ ret' = {}
  /\ UNCHANGED << Store, Ephemeral, once, initPC, initRuns, initErr, handles,
                  built, dirVars, loopPC, loopSt, urlLogs, shutdown, regVars,
                  pc, call, startResults, closeCalled, connVars, crashed >>

\* A Server whose backend reports any of its states once started.
InitBackend ==
  /\ InitFields({"nil"}, {FALSE})
  /\ InitDirs({""}, {EmptyFs})
  /\ InitConns(Conns)
  /\ InitLoop(LbStates)

\* Start, Close, the login URL loop and the backend.
NextLoop ==
  \/ \E p \in Procs : CallStart(p)
  \/ \E p \in Procs : OnceBegin(p)
  \/ \E p \in Procs, ok \in BOOLEAN : StartStep(p, ok)
  \/ \E p \in Procs, fail \in DirFailures : StartDir(p, fail)
  \/ \E p \in Procs : OnceReturn(p)
  \/ \E p \in Procs : CloseTeardown(p)
  \/ \E p \in Procs : CloseRegistry(p)
  \/ LoopCtx
  \/ LoopState
  \/ \E hasURL \in BOOLEAN : LoopStatus(hasURL)
  \/ LoopTimer
  \/ LoopCancelled
  \/ \E st \in LbStates : BackendChange(st)

\* The loop is a goroutine of its own and its timer fires: each of its
\* steps is taken when it stays possible.
SpecLoop ==
  /\ InitBackend
  /\ [][NextLoop]_vars
  /\ WF_vars(LoopCtx)
  /\ WF_vars(LoopState)
  /\ WF_vars(LoopStatus(FALSE))
  /\ WF_vars(LoopTimer)
  /\ WF_vars(LoopCancelled)

\* Two inbound connections and two destination ports, for the dispatches
\* that run side by side.
ConnPair == {1, 2}
PortPair == {80, 81}
\* The arguments of the Listen calls made next to them: the wildcard tcp
\* addresses of the two ports.
ListenArgsPair == { <<"tcp", <<":", "8", "0">> >>, <<"tcp", <<":", "8", "1">> >> }

\* The fields start() sets and the components it constructs when it
\* returns nil.
StartedHandles == {"shutdownCancel", "linkMon", "dialer", "lb", "localAPIListener"}
StartedBuilt == {"linkMon", "engine", "netstack", "forwarding", "backend"}

\* The server after Start() has returned nil and Listen("tcp", ":80") and
\* Listen("tcp", ":81") have returned listeners 1 and 2, with no call in
\* progress and no connection handed to forwardTCP yet; calls counts the
\* calls made from here on.
InitListening ==
  /\ Store = "file"
  /\ Ephemeral = FALSE
  /\ once = "done"
  /\ initPC = "returned"
  /\ initRuns = 1
  /\ initErr = NoErr
  /\ handles = StartedHandles
  /\ built = StartedBuilt
  /\ shutdown = FALSE
  /\ mu = 0
  /\ lns = << [key |-> ForwardKey(80), closed |-> FALSE],
              [key |-> ForwardKey(81), closed |-> FALSE] >>
  /\ listeners = MapInsert(MapInsert(EmptyMap, ForwardKey(80), 1), ForwardKey(81), 2)
  /\ listenersNil = FALSE
  /\ pc = [p \in Procs |-> "idle"]
  /\ call = [p \in Procs |-> NoCall]
  /\ ret = {}
  /\ startResults = {NoErr}
  /\ closeCalled = FALSE
  /\ calls = 0
  /\ crashed = ""
  /\ Dir = ""
  /\ fs = [EmptyFs EXCEPT !["tsnet"] = "dir"]
  /\ rootPath = "tsnet"
  /\ renames = 0
  /\ InitConns(ConnPair)
  /\ lbState = "NeedsLogin"
  /\ loopPC = "ctx"
  /\ loopSt = ""
  /\ urlLogs = 0

\* The listener operations and the dispatcher on a started server.
NextDispatch ==
  \/ \E p \in Procs, a \in ListenArgsPair : CallListen(p, a[1], a[2])
  \/ \E p \in Procs : ListenRegister(p)
  \/ \E p \in Procs, l \in DOMAIN lns : ListenerClose(p, l)
  \/ \E p \in Procs, l \in DOMAIN lns : Accept(p, l)
  \/ \E c \in ConnPair, port \in PortPair : DispatchLookup(c, port)
  \/ \E c \in ConnPair : DispatchOffer(c)
  \/ \E c \in ConnPair : DispatchTimeout(c)

SpecDispatch == InitListening /\ [][NextDispatch]_vars

\* ------------------------------------------------------------------ claims
\* Goroutine p completes its Listen registration in this step.
Registers(p) == pc[p] = "register" /\ pc'[p] = "idle"

\* The forwardTCP invocation of connection c does its lookup in this step.
LooksUp(c) == dpc[c] = "idle" /\ dpc'[c] # "idle"

\* The lookup key of a destination port, written out.
TcpWildcardKey(port) == [network |-> "tcp", host |-> << >>, port |-> Sprint(port)]

\* The open listeners.
Open == { l \in DOMAIN lns : ~lns[l].closed }

\* C1: however many goroutines call Start concurrently (directly, or through
\* Listen or Dial), doInit is entered at most once, no caller gets past the
\* once (to return, to register a listener or to dial) before doInit has
\* returned, and every value Start has returned is the one value of initErr.
C1_StartOnce ==
  /\ initRuns <= 1
  /\ \A p \in Procs : pc[p] \in {"register", "userdial"} =>
       (once = "done" /\ initPC = "returned")
  /\ startResults # {} => (once = "done" /\ initPC = "returned" /\ initRuns = 1)
  /\ startResults \subseteq {initErr}
  /\ \A r \in ret : r.op = "Start" => (once = "done" /\ r.err = initErr)

\* A Start call has returned while another goroutine's concurrent call, made
\* through Listen, is still held at the once it found taken, after exactly
\* one run of doInit.
C1_Witness ==
  /\ initRuns = 1
  /\ \E r \in ret : /\ r.op = "Start"
                    /\ \E q \in Procs \ {r.proc} :
                         pc[q] = "once" /\ call[q].op = "Listen"

\* C2 (as claimed): a Close called after a successful Start returns, whatever
\* the number of registered listeners: it is never stopped for good waiting
\* for s.mu while holding s.mu itself; and when it has returned, the shutdown
\* context is cancelled, every listener is closed and the registry is empty.
C2_CloseReturns ==
  /\ \A p \in Procs : ~(pc[p] = "closeln" /\ mu = p)
  /\ \A r \in ret : r.op = "Close" =>
       (shutdown /\ DOMAIN listeners = {} /\ Open = {})

\* C3: at most one open listener per key at any time, and the map holds it;
\* a Listen reaching the registry with its key registered returns the
\* duplicate error and leaves the map and every listener as they were; one
\* reaching it with its key unregistered registers, so that of the Listen
\* calls racing for one key the first to take the lock succeeds and the
\* others find the key registered.
C3_OneListenerPerKey ==
  /\ [](\A l1, l2 \in Open : lns[l1].key = lns[l2].key => l1 = l2)
  /\ [](\A k \in DOMAIN listeners : listeners[k] \in Open /\ lns[listeners[k]].key = k)
  /\ [][\A p \in Procs : Registers(p) =>
          LET key == CallKey(call[p])
          IN IF key \in DOMAIN listeners
             THEN /\ \E r \in ret' : r.proc = p /\ r.err = ErrDuplicateListener
                  /\ listeners' = listeners
                  /\ lns' = lns
             ELSE /\ \E r \in ret' : r.proc = p /\ r.err = NoErr /\ listeners'[key] = r.val
                  /\ \A q \in Procs \ {p} :
                       (pc[q] = "register" /\ CallKey(call[q]) = key) =>
                         (pc'[q] = "register" /\ key \in DOMAIN listeners')]_vars

\* A Listen has just returned the duplicate error for a key whose listener is
\* registered and open.
C3_Witness ==
  \E r \in ret : /\ r.op = "Listen"
                 /\ r.err = ErrDuplicateListener
                 /\ CallKey(r) \in DOMAIN listeners
                 /\ listeners[CallKey(r)] \in Open

\* C4: on a started server a Listen whose address parses fails only when its
\* key is registered, and one reaching the registry with its key unregistered
\* returns a new open listener registered under that key; the dispatcher's
\* lookup for a port finds the listener registered under {"tcp", "", port};
\* when it offers the connection while an Accept is blocked on that listener,
\* that listener's Accept receives it; and a connection is never received by
\* a listener of any other key.
C4_ListenThenDeliver ==
  /\ [](\A r \in ret :
          (r.op = "Listen" /\ r.err # NoErr /\ SplitHostPort(r.addr).ok /\ initErr = NoErr)
            => (r.err = ErrDuplicateListener /\ CallKey(r) \in DOMAIN listeners))
  /\ [](\A c \in Conns :
          /\ outcome[c] = "delivered" =>
               (acceptedBy[c] \in DOMAIN lns /\ acceptedBy[c] = dln[c]
                /\ lns[acceptedBy[c]].key = TcpWildcardKey(dport[c]))
          /\ acceptedBy[c] # 0 => outcome[c] = "delivered")
  /\ [](\A r \in ret : (r.op = "Accept" /\ r.err = NoErr) =>
          (outcome[r.val] = "delivered" /\ acceptedBy[r.val] = r.ln))
  /\ [][\A p \in Procs : (Registers(p) /\ CallKey(call[p]) \notin DOMAIN listeners) =>
          \E r \in ret' : /\ r.proc = p /\ r.err = NoErr
                          /\ r.val \in DOMAIN lns' /\ r.val \notin DOMAIN lns
                          /\ lns'[r.val] = [key |-> CallKey(call[p]), closed |-> FALSE]
                          /\ listeners'[CallKey(call[p])] = r.val]_vars
  /\ [][\A c \in Conns : \A port \in Ports :
          (LooksUp(c) /\ dport'[c] = port /\ TcpWildcardKey(port) \in DOMAIN listeners)
            => dln'[c] = listeners[TcpWildcardKey(port)]]_vars
  /\ [][\A c \in Conns :
          (dpc[c] = "found" /\ dpc'[c] # "found" /\ Accepting(dln[c]) # {}) =>
            /\ outcome'[c] = "delivered"
            /\ acceptedBy'[c] = dln[c]
            /\ \E r \in ret' : r.op = "Accept" /\ r.ln = dln[c] /\ r.val = c
                               /\ r.proc \in Accepting(dln[c])]_vars

\* An Accept has just received a connection on the listener of the wildcard
\* tcp key while a listener of another key is open as well.
C4_Witness ==
  \E r \in ret : /\ r.op = "Accept"
                 /\ r.err = NoErr
                 /\ outcome[r.val] = "delivered"
                 /\ \E l \in Open : lns[l].key # lns[r.ln].key

\* C5: no Accept stays blocked on a closed listener, an Accept returns the
\* closed error exactly when its listener is closed, a closed listener stays
\* closed; the Close that closes a listener frees its key, and after any
\* Close the listener is closed and is not the one registered under its key;
\* a Listen that then registers the key returns a new, open listener.
C5_ClosedListener ==
  /\ [](\A p \in Procs : pc[p] = "accept" => call[p].ln \in Open)
  /\ [](\A r \in ret : r.op = "Accept" =>
          ((r.err = ErrClosedListener) <=> lns[r.ln].closed))
  /\ [](\A r \in ret : r.op = "ListenerClose" =>
          /\ lns[r.ln].closed
          /\ ~(lns[r.ln].key \in DOMAIN listeners /\ listeners[lns[r.ln].key] = r.ln))
  /\ [][\A l \in DOMAIN lns : lns[l].closed => lns'[l].closed]_vars
  /\ [][\A l \in DOMAIN lns : (~lns[l].closed /\ lns'[l].closed) =>
          lns[l].key \notin DOMAIN listeners']_vars
  /\ [][\A p \in Procs : \A l \in DOMAIN lns :
          (Registers(p) /\ lns[l].closed /\ lns[l].key = CallKey(call[p])
             /\ CallKey(call[p]) \notin DOMAIN listeners) =>
            \E r \in ret' : /\ r.proc = p /\ r.err = NoErr /\ r.val # l
                            /\ r.val \in DOMAIN lns' /\ ~lns'[r.val].closed
                            /\ lns'[r.val].key = lns[l].key]_vars

\* An Accept has just returned the closed error on a closed listener whose
\* key is registered again, by another listener, which is open.
C5_Witness ==
  \E r \in ret : /\ r.op = "Accept"
                 /\ r.err = ErrClosedListener
                 /\ lns[r.ln].closed
                 /\ lns[r.ln].key \in DOMAIN listeners
                 /\ listeners[lns[r.ln].key] # r.ln
                 /\ listeners[lns[r.ln].key] \in Open

\* C6 (as claimed): every invocation of the dispatcher that found a listener
\* ends with the connection either received by an Accept or closed by the
\* dispatcher.
C6_DispatchEnds ==
  \A c \in Conns : (dpc[c] = "done" /\ dln[c] # 0) =>
    outcome[c] \in {"delivered", "closed"}

\* C7: a forwardTCP whose lookup finds no listener under {"tcp", "", port}
\* closes the connection in that same step and returns; the connection stays
\* closed and is never received by an Accept, whatever is registered later.
C7_NoListenerDrop ==
  /\ [][\A c \in Conns : \A port \in Ports :
          (LooksUp(c) /\ dport'[c] = port /\ TcpWildcardKey(port) \notin DOMAIN listeners)
            => (dpc'[c] = "done" /\ outcome'[c] = "closed" /\ dln'[c] = 0)]_vars
  /\ [][\A c \in Conns : (dpc[c] = "done" /\ dln[c] = 0) =>
          (dpc'[c] = "done" /\ dln'[c] = 0 /\ outcome'[c] = "closed"
           /\ acceptedBy'[c] = 0)]_vars
  /\ [](\A c \in Conns : (dpc[c] = "done" /\ dln[c] = 0) =>
          /\ outcome[c] = "closed"
          /\ acceptedBy[c] = 0
          /\ \A r \in ret : (r.op = "Accept" /\ r.err = NoErr) => r.val # c)

\* A connection was dropped for want of a listener, and now a listener is
\* registered under its port's key with an Accept blocked on it.
C7_Witness ==
  \E c \in Conns : /\ dpc[c] = "done" /\ dln[c] = 0 /\ outcome[c] = "closed"
                   /\ TcpWildcardKey(dport[c]) \in DOMAIN listeners
                   /\ Accepting(listeners[TcpWildcardKey(dport[c])]) # {}

\* Start, Dial, or a Listen whose address parses.
ReachesStart(r) ==
  r.op \in {"Start", "Dial"} \/ (r.op = "Listen" /\ SplitHostPort(r.addr).ok)

\* C8 (as claimed): once initialization has failed, every Start, Listen and
\* Dial call returns that wrapped error, doInit has run once, no listener is
\* registered and no goroutine reaches the registry or the dialer.
C8_EveryCallLatched ==
  initErr # NoErr =>
    /\ initRuns = 1
    /\ lns = << >> /\ DOMAIN listeners = {}
    /\ \A p \in Procs : pc[p] \notin {"register", "userdial"}
    /\ \A r \in ret : r.op \in {"Start", "Listen", "Dial"} => r.err = initErr

\* C8 (amended): once initialization has failed, initErr is the wrapped
\* error and never changes, the once stays completed and doInit has run
\* once; every Start and Dial call, and every Listen call whose address
\* parses, returns initErr; no listener is registered and no goroutine
\* reaches the registry or the dialer.
C8_LatchedError ==
  /\ [](initErr # NoErr =>
          /\ initErr[1] = "tsnet"
          /\ once = "done" /\ initRuns = 1
          /\ lns = << >> /\ DOMAIN listeners = {}
          /\ \A p \in Procs : pc[p] \notin {"init", "register", "userdial"}
          /\ startResults \subseteq {initErr}
          /\ \A r \in ret : ReachesStart(r) => r.err = initErr)
  /\ [][initErr # NoErr => initErr' = initErr]_vars

\* After a failed initialization a Listen with a well-formed address has just
\* returned the latched error, which a Start call had returned before.
C8_Witness ==
  /\ initErr # NoErr
  /\ startResults = {initErr}
  /\ \E r \in ret : r.op = "Listen" /\ SplitHostPort(r.addr).ok /\ r.err = initErr

\* start() has gone past its store policy check.
PolicyPassed ==
  \/ initPC \notin {"none", "exe", "policy", "returned"}
  \/ initPC = "returned" /\ initErr \notin {Wrap(ErrExecutable), Wrap(ErrConfiguration)}

\* start() has returned the store policy error.
PolicyFailed == initPC = "returned" /\ initErr = Wrap(ErrConfiguration)

\* C9 (as claimed): with an in-memory store, start() passes the policy check
\* when Ephemeral is set and never returns the policy error; when Ephemeral
\* is not set it never passes the check and constructs no network component.
C9_StorePolicy ==
  /\ (Store = "mem" /\ Ephemeral) => ~PolicyFailed
  /\ (Store = "mem" /\ ~Ephemeral) => (~PolicyPassed /\ built = {})

\* C10: a Close of a listener that is not the one stored under its key
\* changes neither the map nor any listener (nor panics), so it never removes
\* or closes the listener registered since under the same key; no channel is
\* ever closed twice.
C10_StaleCloseNoOp ==
  /\ [][\A r \in ret' :
          (r.op = "ListenerClose"
             /\ ~(lns[r.ln].key \in DOMAIN listeners /\ listeners[lns[r.ln].key] = r.ln))
          => (listeners' = listeners /\ lns' = lns /\ crashed' = crashed
              /\ pc' = pc /\ connVars' = connVars)]_vars
  /\ [](crashed # PanicCloseClosed)

\* A Close has just returned on a listener that was closed already, while
\* its key is registered by a newer listener, which is still open.
C10_Witness ==
  \E r \in ret : /\ r.op = "ListenerClose"
                 /\ lns[r.ln].key \in DOMAIN listeners
                 /\ listeners[lns[r.ln].key] # r.ln
                 /\ listeners[lns[r.ln].key] \in Open

\* The directory resolution of start() is executed in this step.
ResolvesDir == initPC = "dir" /\ initPC' # "dir"

\* C11: with no directory configured, the directory resolution of start()
\* that ends without error has renamed the legacy directory to the new name,
\* once, when only the legacy directory was there; has left the filesystem
\* as it was when both directories were there; has created the new-named
\* directory, and no legacy one, when neither was there; in the three cases
\* s.rootPath is the new-named path, which is a directory, and the only
\* error is that of a failing filesystem call, which leaves the legacy
\* directory in place unless it was renamed. No run renames more than once,
\* and after a successful Start without a configured directory the state
\* directory is the new-named one.
C11_DirResolution ==
  /\ [][(ResolvesDir /\ Dir = "" /\ fs["tslib"] = "dir" /\ fs["tsnet"] = "absent") =>
          /\ initErr' \in {NoErr, Wrap(ErrDirectory)}
          /\ initErr' = NoErr =>
                /\ renames' = renames + 1
                /\ fs'["tslib"] = "absent" /\ fs'["tsnet"] = "dir"
                /\ rootPath' = "tsnet"
          /\ renames' = renames => fs' = fs]_vars
  /\ [][(ResolvesDir /\ Dir = "" /\ fs["tslib"] = "dir" /\ fs["tsnet"] = "dir") =>
          /\ initErr' \in {NoErr, Wrap(ErrDirectory)}
          /\ fs' = fs /\ renames' = renames
          /\ initErr' = NoErr => rootPath' = "tsnet"]_vars
  /\ [][(ResolvesDir /\ Dir = "" /\ fs["tslib"] = "absent" /\ fs["tsnet"] = "absent") =>
          /\ initErr' \in {NoErr, Wrap(ErrDirectory)}
          /\ renames' = renames /\ fs'["tslib"] = "absent"
          /\ initErr' = NoErr => (fs'["tsnet"] = "dir" /\ rootPath' = "tsnet")]_vars
  /\ [](renames <= 1)
  /\ []((Dir = "" /\ initPC = "returned" /\ initErr = NoErr) =>
          (rootPath = "tsnet" /\ fs["tsnet"] = "dir"))
  /\ [][fs["custom"] = fs'["custom"]]_vars

\* Start has succeeded on a server without a configured directory after
\* renaming the legacy directory, which is gone, to the new name.
C11_Witness ==
  /\ Dir = "" /\ initPC = "returned" /\ initErr = NoErr
  /\ renames = 1 /\ fs["tslib"] = "absent" /\ fs["tsnet"] = "dir"
  /\ rootPath = "tsnet"
  /\ \E r \in ret : r.op = "Start" /\ r.err = NoErr

\* Goroutine p takes a step of a Dial call: it makes the call, runs a
\* statement of the initialization the call triggered, gets through the
\* once, dials, or returns.
DialStep(p) ==
  \/ call[p].op = "none" /\ call'[p].op = "Dial"
  \/ call[p].op = "Dial" /\ (pc'[p] # pc[p] \/ (pc[p] = "init" /\ initPC' # initPC))
  \/ \E r \in ret' : r.proc = p /\ r.op = "Dial"

\* C12: no step of a Dial call, whether it triggers the initialization,
\* waits for it, returns its error, dials successfully or fails in the
\* dialer (which is where a cancelled context ends it), changes the map,
\* any listener's key or channel, or takes s.mu; a Dial goes on to the
\* dialer only after a Start that returned nil, and never to the registry.
C12_DialFrame ==
  /\ [][\A p \in Procs : DialStep(p) =>
          (listeners' = listeners /\ listenersNil' = listenersNil
           /\ lns' = lns /\ mu' = mu)]_vars
  /\ [](\A p \in Procs : call[p].op = "Dial" =>
          /\ pc[p] \in {"once", "init", "userdial"}
          /\ pc[p] = "userdial" => (once = "done" /\ initErr = NoErr))

\* A Dial has just failed in the dialer while a listener is registered and
\* open and a closed one is not.
C12_Witness ==
  /\ \E r \in ret : r.op = "Dial" /\ r.err = ErrDial
  /\ \E l \in Open : listeners[lns[l].key] = l
  /\ \E l \in DOMAIN lns : lns[l].closed

\* C13 (as claimed): the process never dies of a send on a closed channel,
\* and no forwardTCP invocation ends in that panic, whether the listener it
\* found is closed before it enters its select or while it is blocked in it.
C13_NoSendOnClosed ==
  /\ crashed # PanicSendClosed
  /\ \A c \in Conns : outcome[c] # "panic"

\* C14: in every reachable state, a listener that a successful Listen has
\* returned is the value stored in the map under its key exactly when its
\* channel is open.
C14_RegisteredIffOpen ==
  \A l \in DOMAIN lns :
    (lns[l].key \in DOMAIN listeners /\ listeners[lns[l].key] = l) <=> ~lns[l].closed

\* Server.Close has been called with a listener registered and open, after
\* another listener had been closed and so removed from the map.
C14_Witness ==
  /\ closeCalled
  /\ \E l \in DOMAIN lns : ~lns[l].closed /\ lns[l].key \in DOMAIN listeners
  /\ \E l \in DOMAIN lns :
       lns[l].closed /\ ~(lns[l].key \in DOMAIN listeners /\ listeners[lns[l].key] = l)

\* Server.Close has been called and has returned.
CloseReturned ==
  closeCalled /\ crashed = "" /\ \A p \in Procs : call[p].op # "Close"

\* C15 (as claimed): once Server.Close has returned, the map holds no
\* listener and no listener is open, whatever Listen calls were in progress
\* when Close was called or are made afterwards.
C15_NoListenerAfterClose ==
  CloseReturned => (DOMAIN listeners = {} /\ Open = {})

\* The Accept calls returning connection c.
Receivers(rs, c) == { r \in rs : r.op = "Accept" /\ r.err = NoErr /\ r.val = c }

\* The forwardTCP invocation of connection c has returned.
DispatchReturned(c) == dpc[c] = "done" /\ outcome[c] # "panic"

\* C16: a forwardTCP invocation that has returned has either handed its
\* connection to an Accept or closed it, and not both; a connection is
\* received in one step by exactly one Accept call, on the listener the
\* lookup found, out of an invocation that is in its select; after the
\* invocation has ended its outcome never changes and no Accept returns the
\* connection again; a connection the dispatcher closed was received by no
\* Accept.
C16_ExactlyOneOutcome ==
  /\ [](\A c \in Conns : DispatchReturned(c) =>
          /\ outcome[c] \in {"delivered", "closed"}
          /\ outcome[c] = "delivered" <=> acceptedBy[c] # 0
          /\ outcome[c] = "closed" <=> acceptedBy[c] = 0)
  /\ [](\A c \in Conns : Cardinality(Receivers(ret, c)) <= 1)
  /\ [][\A c \in Conns : (acceptedBy[c] = 0 /\ acceptedBy'[c] # 0) =>
          /\ dpc[c] \in {"found", "offer"} /\ dpc'[c] = "done"
          /\ acceptedBy'[c] = dln[c] /\ outcome'[c] = "delivered"
          /\ Cardinality(Receivers(ret', c)) = 1]_vars
  /\ [][\A c \in Conns : dpc[c] = "done" =>
          /\ dpc'[c] = "done" /\ outcome'[c] = outcome[c]
          /\ acceptedBy'[c] = acceptedBy[c]
          /\ Receivers(ret', c) = {}]_vars

\* A connection has just been received by one of two Accept calls that were
\* blocked on the same listener; the other is still blocked.
C16_Witness ==
  \E c \in Conns : \E r \in Receivers(ret, c) :
    /\ outcome[c] = "delivered" /\ acceptedBy[c] = r.ln
    /\ \E q \in Procs \ {r.proc} : pc[q] = "accept" /\ call[q].ln = r.ln

\* The forwardTCP invocation of connection a is blocked in its select with
\* no Accept on its listener, in a running process.
Stalled(a) == dpc[a] = "offer" /\ Accepting(dln[a]) = {} /\ crashed = ""

\* C17: while a forwardTCP invocation is blocked in its select for want of
\* an Accept on its listener, s.mu is free; a Listen that has reached the
\* registry can register, and an idle goroutine can close any listener; the
\* next connection can have its lookup done; and an invocation that found
\* another listener, on which an Accept is blocked, can make its offer, and
\* when it does the connection is received by that Accept while the first
\* invocation is still waiting.
C17_StallIndependence ==
  /\ [](\A a \in DOMAIN dpc : Stalled(a) =>
          /\ mu = 0
          /\ \A p \in Procs : pc[p] = "register" => ENABLED ListenRegister(p)
          /\ \A p \in Procs : \A l \in DOMAIN lns :
               (pc[p] = "idle" /\ calls < MaxCalls) => ENABLED ListenerClose(p, l)
          /\ \A b \in DOMAIN dpc : \A port \in PortPair :
               (dpc[b] = "idle" /\ \A d \in DOMAIN dpc : d < b => dpc[d] # "idle")
                 => ENABLED DispatchLookup(b, port)
          /\ \A b \in DOMAIN dpc :
               (dpc[b] = "found" /\ dln[b] # dln[a] /\ Accepting(dln[b]) # {})
                 => ENABLED DispatchOffer(b))
  /\ [][\A a, b \in DOMAIN dpc :
          (Stalled(a) /\ dpc[b] = "found" /\ dln[b] # dln[a]
             /\ Accepting(dln[b]) # {} /\ dpc'[b] # "found") =>
            /\ dpc'[b] = "done" /\ outcome'[b] = "delivered"
            /\ acceptedBy'[b] = dln[b]
            /\ Cardinality(Receivers(ret', b)) = 1
            /\ dpc'[a] = "offer"]_vars

\* One connection is waiting in the select on a listener no Accept is
\* blocked on, and the other has just been received by an Accept on a
\* different listener.
C17_Witness ==
  \E a, b \in DOMAIN dpc :
    /\ Stalled(a)
    /\ dln[b] # dln[a] /\ outcome[b] = "delivered" /\ acceptedBy[b] = dln[b]
    /\ Receivers(ret, b) # {}

\* The loop logs the login URL in this step.
LogsURL == urlLogs' # urlLogs

\* Shutdown has been signalled, or the backend has left the NeedsLogin state.
LoopShouldStop == shutdown \/ lbState # "NeedsLogin"

\* C18: the loop logs the login URL only in an iteration whose test of the
\* shutdown context found it live and whose read of the backend state
\* returned NeedsLogin; a test that finds the context cancelled and a read
\* that returns another state end the loop at once, and so does the
\* shutdown case of its select; once the loop has returned it stays
\* returned and logs nothing; and the loop terminates: once shutdown has
\* been signalled it eventually returns, and so it does when the backend
\* state stays away from NeedsLogin.
C18_LoginLoop ==
  /\ [][LogsURL => (loopPC = "status" /\ loopSt = "NeedsLogin"
                    /\ urlLogs' = urlLogs + 1)]_vars
  /\ [](loopPC = "status" => loopSt = "NeedsLogin")
  /\ [][(loopPC = "ctx" /\ shutdown /\ loopPC' # "ctx") => loopPC' = "done"]_vars
  /\ [][(loopPC = "state" /\ lbState # "NeedsLogin" /\ loopPC' # "state")
          => loopPC' = "done"]_vars
  /\ [][loopPC = "done" => (loopPC' = "done" /\ urlLogs' = urlLogs)]_vars
  /\ ((loopPC # "none" /\ shutdown) ~> (loopPC = "done"))
  /\ [](loopPC # "none" => ([](lbState # "NeedsLogin") => <>(loopPC = "done")))

\* The loop has returned after logging the login URL, on a server that
\* has not been closed: the backend left the NeedsLogin state.
C18_Witness ==
  /\ loopPC = "done" /\ urlLogs > 0 /\ ~shutdown
  /\ loopSt = "Running"

\* C19: a Listen that returns the address error or the duplicate error
\* leaves the map, every listener, the lock and the result of Start as
\* they were; a listener.Close leaves every other key mapped to the listener
\* it was mapped to and adds none, leaves every other listener's key and
\* channel as they were and every Accept blocked on another listener
\* blocked, and leaves the once and initErr unchanged.
C19_PerListenerFrame ==
  /\ [][\A r \in ret' :
          (r.op = "Listen" /\ r.err \in {ErrAddressParse, ErrDuplicateListener}) =>
            /\ listeners' = listeners /\ listenersNil' = listenersNil
            /\ lns' = lns /\ mu' = mu
            /\ once' = once /\ initErr' = initErr /\ initRuns' = initRuns]_vars
  /\ [][\A r \in ret' : r.op = "ListenerClose" =>
          /\ DOMAIN listeners' \subseteq DOMAIN listeners
          /\ \A k \in DOMAIN listeners \ {lns[r.ln].key} :
               k \in DOMAIN listeners' /\ listeners'[k] = listeners[k]
          /\ DOMAIN lns' = DOMAIN lns
          /\ \A l \in DOMAIN lns \ {r.ln} : lns'[l] = lns[l]
          /\ \A q \in Procs : (pc[q] = "accept" /\ call[q].ln # r.ln) =>
               (pc'[q] = "accept" /\ call'[q] = call[q])
          /\ once' = once /\ initErr' = initErr /\ initRuns' = initRuns
          /\ startResults' = startResults]_vars

\* A Close has just closed a listener while a listener is registered and
\* open under another key, with an Accept blocked on it.
C19_Witness ==
  \E r \in ret :
    /\ r.op = "ListenerClose" /\ lns[r.ln].closed
    /\ lns[r.ln].key \notin DOMAIN listeners
    /\ \E l \in Open : /\ lns[l].key # lns[r.ln].key
                        /\ listeners[lns[l].key] = l
                        /\ Accepting(l) # {}

\* C20 (as claimed): when Server.Close runs after a Start that has
\* returned, with nil or with a latched error, every field it calls a
\* method on is set, and the process never dies of a nil dereference.
C20_CloseHandlesSet ==
  /\ closeCalled => CloseHandles \subseteq handles
  /\ crashed # PanicNilDeref

====
